---- MODULE Spec2Model ----
(***************************************************************************)
(* KleptoSyn: graph assembly (kleptosyn/net.py), bad-actor selection and   *)
(* transfer simulation (kleptosyn/sim.py), result accumulation             *)
(* (kleptosyn/syn.py).                                                     *)
(*                                                                         *)
(* Conventions.                                                            *)
(*  - A node's attribute dict is a function from attribute names to        *)
(*    values; a key that was never set is outside its DOMAIN, and reading  *)
(*    it is a KeyError.  Python's None is the value None.                  *)
(*  - The DiGraph's edges are a sequence of records keyed by (src, dst),   *)
(*    in insertion order; adding an existing key replaces its attributes.  *)
(*  - Record ids ("r..") and entity ids ("sz_..") are disjoint: the        *)
(*    ER_ENTITY_PREFIX namespace.  A resolution export names each resolved *)
(*    entity in one line.                                                  *)
(*  - Money is counted in whole units, time in days after `start`.         *)
(*  - syn.xact is kept by the set of the parties of its rows (node id,      *)
(*    role, fraud flag, whether the other party is the same id), the       *)
(*    number and the sum of its fraud rows, the sum and the last amount of *)
(*    its legitimate rows and the dates met; syn.ents by the set of its    *)
(*    rows, each with the id asked for and the record read.                *)
(***************************************************************************)
EXTENDS Integers, Sequences, FiniteSets, TLC

VARIABLES
    pc,              \* position of the run
    err,             \* what ended the run abnormally ("" while it has not)
    dat_file,        \* rows of the dataset file being read by load_dataset
    dat_pos,         \* number of rows of dat_file consumed
    er_export_file,  \* lines of the resolution export read by load_er_export
    er_pos,          \* number of lines of er_export_file consumed
    nodes,           \* net.graph.nodes: node id -> attribute dict
    node_seq,        \* the node ids in insertion order (iteration order of graph.nodes)
    edges            \* net.graph.edges: sequence of edge records

VARIABLES
    finish,          \* sim.finish, in days after start
    bad_actors,      \* sim.bad_actors
    b2b_actors,      \* sim.b2b_actors
    total_fraud,     \* sim.total_fraud
    xact,            \* syn.xact
    ents,            \* syn.ents
    episodes,        \* completed calls of simulate_fraud
    bad_cliques,     \* select_bad_actor: the candidate list it last built
    ubo_owner,       \* simulate_fraud: bad_clique[0]
    shell_corps,     \* simulate_fraud: set(bad_clique[1:]); simulate_legit: shells
    target_funds,    \* simulate_fraud / simulate_legit: target_funds
    subtotal,        \* simulate_fraud / simulate_legit: subtotal
    path_len,        \* simulate_fraud: the length drawn for this batch's paths
    batch_subtotal,  \* run_one_fraud: subtotal
    picked,          \* run_one_fraud: the sampled paths iterated so far
    path,            \* run_one_fraud: what is left of the path being walked
    pii_out          \* what a direct call of get_pii_features gave

netVars == << dat_file, dat_pos, er_export_file, er_pos, nodes, node_seq, edges >>

simVars == << finish, bad_actors, b2b_actors, total_fraud >>

synVars == << xact, ents >>

localVars == << episodes, bad_cliques, ubo_owner, shell_corps, target_funds,
                subtotal, path_len, batch_subtotal, picked, path, pii_out >>

vars == << pc, err, netVars, simVars, synVars, localVars >>

None == "None"

(***************************************************************************)
(* Bounds of the input families.                                           *)
(***************************************************************************)
MaxMembers == 3
MaxRelated == 2
RankIters == 2
MaxEpisodes == 1
MaxAmount == 2
MaxTarget == 9
MaxOffset == 1
MaxShells == 7

(***************************************************************************)
(* Program constants.                                                      *)
(***************************************************************************)
MAX_MATCH_LEVEL == 11
ER_ENTITY_PREFIX == "sz_"
MIN_CLIQUE_SIZE == 3
MAX_PATH_LEN == 7
SAMPLE_SIZE == 4
SANCTIONED_COUNTRIES == { "RU" }
\* 1 / APPROX_FRAUD_RATE
INV_APPROX_FRAUD_RATE == 50
\* the simulation start, the origin of the time axis
start == 0

FTM_CLASSES(rtype) ==
    CASE rtype = "person" -> "ftm:Person"
      [] rtype = "organization" -> "ftm:Company"
      [] rtype = "transaction" -> "ftm:Payment"

(***************************************************************************)
(* Text primitives on the tokens the inputs use.                           *)
(***************************************************************************)
Strip(s) ==
    CASE s = " " -> ""
      [] s = " d3" -> "d3"
      [] OTHER -> s

scrub_text(text) == IF text = None THEN None ELSE Strip(text)

(***************************************************************************)
(* Inputs: dataset rows and resolution export lines.                       *)
(***************************************************************************)
Row(id, t, n, a, c) ==
    [RECORD_ID |-> id, RECORD_TYPE |-> t, name |-> n, addr |-> a, country |-> c]

DatGood ==
    << Row("r1", "person", "n1", "a1", "US"),
       Row("r2", "organization", "n2", None, "FR"),
       Row("r3", "organization", "n3", "a3", "US"),
       Row("r4", "organization", "n4", None, None),
       Row("r5", "organization", "n5", "a5", "RU"),
       Row("r6", "organization", "n6", "a6", "US"),
       Row("r7", "organization", "n7", None, "US"),
       Row("r8", "organization", "n8", "a8", "FR"),
       Row("r9", "person", "n9", "a9", "FR") >>

\* a row from which no name can be extracted
DatNoName ==
    << Row("r1", "person", "n1", "a1", "US"),
       Row("r2", "organization", None, None, "FR"),
       Row("r3", "organization", "n3", "a3", "US") >>

\* a row whose country code is no known code
DatUnknownCountry ==
    << Row("r1", "person", "n1", "a1", "US"),
       Row("r2", "organization", "n2", None, "XX"),
       Row("r3", "organization", "n3", "a3", "US") >>

DatFiles == { DatGood, DatNoName, DatUnknownCountry }

KnownCountries == { "US", "FR", "RU" }

M(rec, level, desc) ==
    [RECORD_ID |-> rec, MATCH_LEVEL |-> level, MATCH_KEY |-> "+NAME", ENTITY_DESC |-> desc]

Rel(ent, level) ==
    [ENTITY_ID |-> ent, MATCH_LEVEL |-> level, MATCH_KEY |-> "+ADDRESS"]

Line(ent, ms, rs) ==
    [ENTITY_ID |-> ent, RECORDS |-> ms, RELATED_ENTITIES |-> rs]

SeqsUpTo(S, n) == UNION { [1..k -> S] : k \in 0..n }

BuildMembers ==
    { M("r1", 2, ""), M("r2", 0, "d2"), M("r3", 11, " d3"),
      M("r3", 4, ""), M("r4", 5, " ") }

BuildRelated == { Rel("sz_2", 3), Rel("sz_2", 7), Rel("sz_3", 11) }

BuildSecondLines ==
    { << >>,
      << Line("sz_2", << >>, << >>) >>,
      << Line("sz_2", << M("r2", 1, "d2") >>, << Rel("sz_1", 3) >>) >> }

BuildExports ==
    { << Line("sz_1", ms, rs) >> \o tl :
        ms \in SeqsUpTo(BuildMembers, MaxMembers),
        rs \in SeqsUpTo(BuildRelated, MaxRelated),
        tl \in BuildSecondLines }

\* an entity resolved from one record, with links to related entities
G(ent, rec, rels) ==
    Line(ent, << M(rec, 2, "") >>, [i \in 1..Len(rels) |-> Rel(rels[i], 3)])

\* an owner with three shells; outside its component two companies and a
\* company of a sanctioned country
SimViable ==
    << G("sz_1", "r1", << "sz_2", "sz_3", "sz_6" >>),
       G("sz_2", "r2", << >>), G("sz_3", "r3", << >>), G("sz_6", "r6", << >>),
       G("sz_7", "r7", << "sz_8", "sz_5" >>), G("sz_8", "r8", << >>),
       G("sz_5", "r5", << >>) >>

\* the third company of the component is in a sanctioned country
SimSanctioned ==
    << G("sz_1", "r1", << "sz_2", "sz_3", "sz_5" >>),
       G("sz_2", "r2", << >>), G("sz_3", "r3", << >>), G("sz_5", "r5", << >>),
       G("sz_7", "r7", << "sz_8" >>), G("sz_8", "r8", << >>) >>

\* two persons and a company of a sanctioned country in the component; no
\* company outside it
SimTwoOwnersA ==
    << G("sz_1", "r1", << "sz_2", "sz_3", "sz_6" >>),
       G("sz_2", "r2", << >>), G("sz_3", "r3", << >>), G("sz_6", "r6", << >>),
       G("sz_9", "r9", << "sz_1", "sz_5" >>), G("sz_5", "r5", << >>) >>

SimTwoOwnersB ==
    << G("sz_1", "r1", << "sz_2", "sz_3", "sz_6", "sz_9" >>),
       G("sz_2", "r2", << >>), G("sz_3", "r3", << >>), G("sz_6", "r6", << >>),
       G("sz_9", "r9", << >>) >>

\* a company without country outside the component
SimNoCountryOutside ==
    << G("sz_1", "r1", << "sz_2", "sz_3", "sz_6" >>),
       G("sz_2", "r2", << >>), G("sz_3", "r3", << >>), G("sz_6", "r6", << >>),
       G("sz_4", "r4", << >>), G("sz_7", "r7", << "sz_8" >>), G("sz_8", "r8", << >>) >>

\* a company without country inside the component
SimNoCountryInside ==
    << G("sz_1", "r1", << "sz_2", "sz_3", "sz_6", "sz_4" >>),
       G("sz_2", "r2", << >>), G("sz_3", "r3", << >>), G("sz_6", "r6", << >>),
       G("sz_4", "r4", << >>) >>

\* three companies and no person
SimNoOwner ==
    << G("sz_2", "r2", << "sz_3", "sz_6" >>),
       G("sz_3", "r3", << >>), G("sz_6", "r6", << >>), G("sz_1", "r1", << >>) >>

\* a group of a person record and an organization record, and three
\* companies resolved from one record each, related to the group's entity
GroupOfTwo(ms) ==
    << Line("sz_1", ms, << Rel("sz_3", 3), Rel("sz_6", 3), Rel("sz_7", 3) >>),
       G("sz_3", "r3", << >>), G("sz_6", "r6", << >>), G("sz_7", "r7", << >>) >>

SimGroupPersonLast == GroupOfTwo(<< M("r2", 2, ""), M("r1", 2, "") >>)

SimGroupPersonFirst == GroupOfTwo(<< M("r1", 2, ""), M("r2", 2, "") >>)

SimExports ==
    { SimViable, SimSanctioned, SimTwoOwnersA, SimTwoOwnersB,
      SimNoCountryOutside, SimNoCountryInside, SimNoOwner,
      SimGroupPersonLast, SimGroupPersonFirst }

ErExportFiles == BuildExports \cup SimExports

(***************************************************************************)
(* networkx.DiGraph primitives.                                            *)
(***************************************************************************)
EmptyAttrs == [k \in {} |-> None]

\* dict.update: the keys of `new` win
Update(old, new) ==
    [k \in (DOMAIN old) \cup (DOMAIN new) |->
        IF k \in DOMAIN new THEN new[k] ELSE old[k]]

add_node(ns, id, attrs) ==
    IF id \in DOMAIN ns
    THEN [ns EXCEPT ![id] = Update(@, attrs)]
    ELSE [n \in (DOMAIN ns) \cup {id} |-> IF n = id THEN attrs ELSE ns[n]]

EdgeIdx(es, u, v) == { i \in 1..Len(es) : es[i].src = u /\ es[i].dst = v }

\* add_edge on the edge list: an existing (u, v) keeps its place and takes the
\* new attributes
add_edge(es, u, v, attrs) ==
    LET e == [src |-> u, dst |-> v] @@ attrs
    IN  IF EdgeIdx(es, u, v) # {}
        THEN [i \in 1..Len(es) |-> IF i \in EdgeIdx(es, u, v) THEN e ELSE es[i]]
        ELSE Append(es, e)

\* add_edge creates the end points it does not find, without attributes
add_edge_nodes(ns, u, v) ==
    LET n1 == IF u \in DOMAIN ns THEN ns ELSE add_node(ns, u, EmptyAttrs)
    IN  IF v \in DOMAIN n1 THEN n1 ELSE add_node(n1, v, EmptyAttrs)

\* the insertion order of the node dict after the ids `ids` were added in turn
add_order(sq, ids) ==
    LET F[i \in 0..Len(ids)] ==
            IF i = 0 THEN sq
            ELSE LET prev == F[i - 1]
                 IN  IF \E j \in 1..Len(prev) : prev[j] = ids[i]
                     THEN prev
                     ELSE Append(prev, ids[i])
    IN  F[Len(ids)]

\* graph.neighbors(n): the successors of n, in insertion order
neighbors(es, n) ==
    LET F[i \in 0..Len(es)] ==
            IF i = 0 THEN << >>
            ELSE IF es[i].src = n THEN Append(F[i - 1], es[i].dst) ELSE F[i - 1]
    IN  F[Len(es)]

Has(ns, n, k) == n \in DOMAIN ns /\ k \in DOMAIN ns[n]

(***************************************************************************)
(* Network.load_dataset: one row of the dataset file.                      *)
(***************************************************************************)
\* extract_name: sys.exit when no name can be extracted
extract_name_exits(row) == row.name = None

\* extract_country: an unknown code is printed and returned all the same
extract_country(row) == row.country

load_dataset_row(ns, row) ==
    add_node(ns, row.RECORD_ID,
        [kind |-> "data",
         type |-> FTM_CLASSES(row.RECORD_TYPE),
         name |-> row.name,
         addr |-> row.addr,
         country |-> extract_country(row)])

OpenDataset ==
    /\ pc = "init"
    /\ \E f \in DatFiles : dat_file' = f
    /\ dat_pos' = 0
    /\ pc' = "load_dataset"
    /\ UNCHANGED << err, er_export_file, er_pos, nodes, node_seq, edges >>
    /\ UNCHANGED << simVars, synVars, localVars >>

LoadDatasetRow ==
    /\ pc = "load_dataset"
    /\ dat_pos < Len(dat_file)
    /\ LET row == dat_file[dat_pos + 1]
       IN  IF extract_name_exits(row)
           THEN /\ pc' = "failed"
                /\ err' = "SystemExit"
                /\ UNCHANGED << dat_pos, nodes, node_seq >>
           ELSE /\ nodes' = load_dataset_row(nodes, row)
                /\ node_seq' = add_order(node_seq, << row.RECORD_ID >>)
                /\ dat_pos' = dat_pos + 1
                /\ UNCHANGED << pc, err >>
    /\ UNCHANGED << dat_file, er_export_file, er_pos, edges >>
    /\ UNCHANGED << simVars, synVars, localVars >>

(***************************************************************************)
(* Network.load_er_export: one line of the resolution export.              *)
(***************************************************************************)
\* the confidence stored on an edge, as a fraction num/den
EdgeProb(level) == [num |-> level, den |-> 1]

\* Counter(ent_countries).most_common()[0][0]: the keys are in first-occurrence
\* order and the sort by count is stable, so the first key of maximal count wins
Count(cs, c) == Cardinality({ i \in 1..Len(cs) : cs[i] = c })

\* variant: among the countries of maximal count the one seen last wins
most_common_last(cs) ==
    LET mx == CHOOSE m \in { Count(cs, cs[i]) : i \in 1..Len(cs) } :
                  \A i \in 1..Len(cs) : Count(cs, cs[i]) <= m
        last == CHOOSE i \in 1..Len(cs) :
                  /\ Count(cs, cs[i]) = mx
                  /\ \A j \in (i + 1)..Len(cs) : Count(cs, cs[j]) < mx \/ cs[j] = cs[i]
    IN  cs[last]

most_common_first(cs) ==
    LET mx == CHOOSE m \in { Count(cs, cs[i]) : i \in 1..Len(cs) } :
                  \A i \in 1..Len(cs) : Count(cs, cs[i]) <= m
        first == CHOOSE i \in 1..Len(cs) :
                  /\ Count(cs, cs[i]) = mx
                  /\ \A j \in 1..(i - 1) : Count(cs, cs[j]) < mx
    IN  cs[first]

\* the loop over dat["RESOLVED_ENTITY"]["RECORDS"]; st.raised stops it
resolved_loop(ns, es, ent_id, ms) ==
    LET F[i \in 0..Len(ms)] ==
            IF i = 0
            THEN [nodes |-> ns, edges |-> es, ent_type |-> None, ent_desc |-> None,
                  ent_countries |-> << >>, raised |-> FALSE]
            ELSE LET st == F[i - 1]
                     m == ms[i]
                     rec_id == m.RECORD_ID
                     es1 == add_edge(st.edges, ent_id, rec_id,
                                [kind |-> "resolved",
                                 why |-> scrub_text(m.MATCH_KEY),
                                 prob |-> EdgeProb(m.MATCH_LEVEL),
                                 level |-> m.MATCH_LEVEL])
                     ns1 == add_edge_nodes(st.nodes, ent_id, rec_id)
                     desc == Strip(m.ENTITY_DESC)
                 IN  IF st.raised THEN st
                     ELSE IF ~ Has(ns1, rec_id, "type") \/ ~ Has(ns1, rec_id, "country")
                     THEN [st EXCEPT !.nodes = ns1, !.edges = es1, !.raised = TRUE]
                     ELSE [nodes |-> ns1,
                           edges |-> es1,
                           ent_type |-> ns1[rec_id]["type"],
                           ent_desc |-> IF desc # "" THEN desc ELSE st.ent_desc,
                           ent_countries |->
                               IF ns1[rec_id]["country"] # None
                               THEN Append(st.ent_countries, ns1[rec_id]["country"])
                               ELSE st.ent_countries,
                           raised |-> FALSE]
    IN  F[Len(ms)]

\* variant: the related entity is left to add_edge, which creates it bare
related_loop_bare(ns, es, ent_id, rs) ==
    LET F[i \in 0..Len(rs)] ==
            IF i = 0
            THEN [nodes |-> ns, edges |-> es]
            ELSE LET st == F[i - 1]
                     rel_id == rs[i].ENTITY_ID
                 IN  [nodes |-> add_edge_nodes(st.nodes, ent_id, rel_id),
                      edges |-> add_edge(st.edges, ent_id, rel_id,
                                   [kind |-> "related",
                                    why |-> scrub_text(rs[i].MATCH_KEY),
                                    prob |-> EdgeProb(rs[i].MATCH_LEVEL),
                                    level |-> rs[i].MATCH_LEVEL])]
    IN  F[Len(rs)]

\* the loop over dat["RELATED_ENTITIES"]
related_loop(ns, es, ent_id, rs) ==
    LET F[i \in 0..Len(rs)] ==
            IF i = 0
            THEN [nodes |-> ns, edges |-> es]
            ELSE LET st == F[i - 1]
                     rel_id == rs[i].ENTITY_ID
                     ns1 == IF rel_id \notin DOMAIN st.nodes
                            THEN add_node(st.nodes, rel_id, [kind |-> "entity"])
                            ELSE st.nodes
                 IN  [nodes |-> ns1,
                      edges |-> add_edge(st.edges, ent_id, rel_id,
                                   [kind |-> "related",
                                    why |-> scrub_text(rs[i].MATCH_KEY),
                                    prob |-> EdgeProb(rs[i].MATCH_LEVEL),
                                    level |-> rs[i].MATCH_LEVEL])]
    IN  F[Len(rs)]

\* one iteration of `for line in fp`
load_er_export_line(ns, es, line) ==
    LET ent_id == line.ENTITY_ID
        ns0 == IF ent_id \notin DOMAIN ns
               THEN add_node(ns, ent_id, [kind |-> "entity"])
               ELSE ns
        r == resolved_loop(ns0, es, ent_id, line.RECORDS)
        typed == Update(r.nodes[ent_id],
                     [type |-> r.ent_type, name |-> scrub_text(r.ent_desc)])
        withc == IF Len(r.ent_countries) > 0
                 THEN Update(typed, [country |-> most_common_first(r.ent_countries)])
                 ELSE typed
        ns2 == [r.nodes EXCEPT ![ent_id] = withc]
        rel == related_loop(ns2, r.edges, ent_id, line.RELATED_ENTITIES)
    IN  IF r.raised
        THEN [nodes |-> r.nodes, edges |-> r.edges, raised |-> TRUE]
        ELSE [nodes |-> rel.nodes, edges |-> rel.edges, raised |-> FALSE]

\* the ids a line names, in the order its loops meet them
line_ids(line) ==
    << line.ENTITY_ID >>
    \o [i \in 1..Len(line.RECORDS) |-> line.RECORDS[i].RECORD_ID]
    \o [i \in 1..Len(line.RELATED_ENTITIES) |-> line.RELATED_ENTITIES[i].ENTITY_ID]

\* the nodes of `ns` in insertion order: the old ones, then the line's new ones
order_after(sq, ns, line) ==
    SelectSeq(add_order(sq, line_ids(line)), LAMBDA n : n \in DOMAIN ns)

OpenErExport ==
    /\ pc = "load_dataset"
    /\ dat_pos = Len(dat_file)
    /\ \E f \in ErExportFiles : er_export_file' = f
    /\ er_pos' = 0
    /\ pc' = "load_er_export"
    /\ UNCHANGED << err, dat_file, dat_pos, nodes, node_seq, edges >>
    /\ UNCHANGED << simVars, synVars, localVars >>

LoadErExportLine ==
    /\ pc = "load_er_export"
    /\ er_pos < Len(er_export_file)
    /\ LET out == load_er_export_line(nodes, edges, er_export_file[er_pos + 1])
       IN  /\ nodes' = out.nodes
           /\ edges' = out.edges
           /\ node_seq' = order_after(node_seq, out.nodes, er_export_file[er_pos + 1])
           /\ IF out.raised
              THEN /\ pc' = "failed"
                   /\ err' = "KeyError"
                   /\ UNCHANGED er_pos
              ELSE /\ er_pos' = er_pos + 1
                   /\ UNCHANGED << pc, err >>
    /\ UNCHANGED << dat_file, dat_pos, er_export_file >>
    /\ UNCHANGED << simVars, synVars, localVars >>

\* end of the export: load() goes on to repair()
CloseErExport ==
    /\ pc = "load_er_export"
    /\ er_pos = Len(er_export_file)
    /\ pc' = "repair"
    /\ UNCHANGED << err, netVars, simVars, synVars, localVars >>

(***************************************************************************)
(* Network.repair                                                          *)
(***************************************************************************)
\* the inner loop over graph.neighbors(node_id): every data neighbour assigns
repair_name(ns, es, node_id) ==
    LET nb == neighbors(es, node_id)
        F[j \in 0..Len(nb)] ==
            IF j = 0 THEN ns[node_id]["name"]
            ELSE IF ns[nb[j]]["kind"] = "data" THEN ns[nb[j]]["name"] ELSE F[j - 1]
    IN  F[Len(nb)]

\* the loop over graph.nodes(data = True); a missing key raises KeyError
repair(ns, es, sq) ==
    LET F[i \in 0..Len(sq)] ==
            IF i = 0 THEN [nodes |-> ns, raised |-> FALSE]
            ELSE LET st == F[i - 1]
                     node_id == sq[i]
                 IN  IF st.raised THEN st
                     ELSE IF ~ Has(st.nodes, node_id, "kind") THEN [st EXCEPT !.raised = TRUE]
                     ELSE IF st.nodes[node_id]["kind"] # "entity" THEN st
                     ELSE IF ~ Has(st.nodes, node_id, "type") THEN [st EXCEPT !.raised = TRUE]
                     ELSE IF st.nodes[node_id]["type"] # "ftm:Person" THEN st
                     ELSE IF st.nodes[node_id]["name"] # None THEN st
                     ELSE [st EXCEPT !.nodes[node_id]["name"] =
                                         repair_name(st.nodes, es, node_id)]
    IN  F[Len(sq)]

Repair ==
    /\ pc = "repair"
    /\ LET out == repair(nodes, edges, node_seq)
       IN  /\ nodes' = out.nodes
           /\ IF out.raised
              THEN pc' = "failed" /\ err' = "KeyError"
              ELSE pc' = "rank" /\ UNCHANGED err
    /\ UNCHANGED << dat_file, dat_pos, er_export_file, er_pos, node_seq, edges >>
    /\ UNCHANGED << simVars, synVars, localVars >>

(***************************************************************************)
(* Network.load: the centrality pass.  networkx iterates x <- (A + I)^T x  *)
(* from x = 1 and normalises; the order of the values is that of the       *)
(* unnormalised iterate computed here.  Whether the iteration converges    *)
(* within max_iter is not decided by the model: both outcomes are kept.    *)
(***************************************************************************)
in_sum(es, x, v) ==
    LET F[i \in 0..Len(es)] ==
            IF i = 0 THEN 0
            ELSE F[i - 1] + (IF es[i].dst = v THEN x[es[i].src] ELSE 0)
    IN  F[Len(es)]

eigenvector_centrality(ns, es) ==
    LET X[k \in 0..RankIters] ==
            IF k = 0 THEN [n \in DOMAIN ns |-> 1]
            ELSE LET xlast == X[k - 1]
                 IN  [n \in DOMAIN ns |-> xlast[n] + in_sum(es, xlast, n)]
    IN  X[RankIters]

\* variant: only the entity nodes take a rank
assign_rank_entities(ns, x) ==
    [n \in DOMAIN ns |->
        IF Has(ns, n, "kind") /\ ns[n]["kind"] = "entity"
        THEN Update(ns[n], [rank |-> x[n]])
        ELSE ns[n]]

assign_rank(ns, x) == [n \in DOMAIN ns |-> Update(ns[n], [rank |-> x[n]])]

Rank ==
    /\ pc = "rank"
    /\ \/ /\ DOMAIN nodes # {}
          /\ nodes' = assign_rank(nodes, eigenvector_centrality(nodes, edges))
          /\ pc' = "ready"
          /\ UNCHANGED err
       \/ /\ pc' = "failed"
          /\ err' = "NetworkXError"
          /\ UNCHANGED nodes
    /\ UNCHANGED << dat_file, dat_pos, er_export_file, er_pos, node_seq, edges >>
    /\ UNCHANGED << simVars, synVars, localVars >>

(***************************************************************************)
(* Network.get_pii_features                                                *)
(***************************************************************************)
Range(sq) == { sq[i] : i \in 1..Len(sq) }

\* the records the accessor may read: a data neighbour drawn by random.choice,
\* or the node itself
pii_rec_ids(ns, es, node_id) ==
    LET rec_list == SelectSeq(neighbors(es, node_id),
                        LAMBDA m : Has(ns, m, "kind") /\ ns[m]["kind"] = "data")
    IN  IF ns[node_id]["kind"] = "entity" /\ Len(rec_list) > 0
        THEN Range(rec_list)
        ELSE { node_id }

\* variant: the features are read off the node asked for, absent ones made up
pii_result_of_node(ns, node_id, rec_id) ==
    [raised |-> "", id |-> node_id, rec |-> rec_id,
     name |-> IF Has(ns, node_id, "name") THEN ns[node_id]["name"] ELSE None,
     addr |-> IF Has(ns, node_id, "addr") THEN ns[node_id]["addr"] ELSE None,
     type |-> IF Has(ns, node_id, "type") /\ ns[node_id]["type"] = "ftm:Person"
              THEN "person" ELSE "organization"]

pii_result(ns, node_id, rec_id) ==
    IF rec_id = None
    THEN [raised |-> "SystemExit", id |-> node_id, rec |-> rec_id]
    ELSE IF ~ (Has(ns, rec_id, "name") /\ Has(ns, rec_id, "addr") /\ Has(ns, rec_id, "type"))
    THEN [raised |-> "KeyError", id |-> node_id, rec |-> rec_id]
    ELSE [raised |-> "", id |-> node_id, rec |-> rec_id,
          name |-> ns[rec_id]["name"],
          addr |-> ns[rec_id]["addr"],
          type |-> IF ns[rec_id]["type"] = "ftm:Person" THEN "person" ELSE "organization"]

\* every outcome of one call
get_pii_features(ns, es, node_id) ==
    IF ~ Has(ns, node_id, "kind")
    THEN { [raised |-> "KeyError", id |-> node_id, rec |-> node_id] }
    ELSE { pii_result(ns, node_id, rec_id) : rec_id \in pii_rec_ids(ns, es, node_id) }

\* a caller asks for the features of one node of the loaded graph
CallGetPiiFeatures ==
    /\ pc = "ready"
    /\ episodes = 0
    /\ \E node_id \in DOMAIN nodes :
          \E out \in get_pii_features(nodes, edges, node_id) :
              /\ pii_out' = out
              /\ IF out.raised # ""
                 THEN pc' = "failed" /\ err' = out.raised
                 ELSE pc' = "done" /\ UNCHANGED err
    /\ UNCHANGED << netVars, simVars, synVars >>
    /\ UNCHANGED << episodes, bad_cliques, ubo_owner, shell_corps, target_funds,
                    subtotal, path_len, batch_subtotal, picked, path >>

(***************************************************************************)
(* Simulation.select_bad_actor                                             *)
(***************************************************************************)
\* nx.weakly_connected_components
Touch(es, S) ==
    S \cup { es[i].dst : i \in { j \in 1..Len(es) : es[j].src \in S } }
      \cup { es[i].src : i \in { j \in 1..Len(es) : es[j].dst \in S } }

RECURSIVE Close(_, _)
Close(es, S) == IF Touch(es, S) = S THEN S ELSE Close(es, Touch(es, S))

weakly_connected_components(ns, es) == { Close(es, {n}) : n \in DOMAIN ns }

\* the order of Python's str on the entity ids
IdOrder == << "sz_1", "sz_2", "sz_3", "sz_4", "sz_5", "sz_6", "sz_7", "sz_8", "sz_9" >>

IdKey(id) == CHOOSE i \in 1..Len(IdOrder) : IdOrder[i] = id

\* a comprehension of select_bad_actor reads a key some node of the clique lacks
select_raises(ns, clique) ==
    \E n \in clique :
        \/ ~ Has(ns, n, "kind")
        \/ /\ ns[n]["kind"] = "entity"
           /\ \/ ~ Has(ns, n, "type")
              \/ ns[n]["type"] = "ftm:Person" /\ ~ Has(ns, n, "rank")
              \/ ns[n]["type"] = "ftm:Company" /\ ~ Has(ns, n, "country")

\* variant: every entity counts as an owner, whatever its type
owners_any_type(ns, clique) ==
    { n \in clique : ns[n]["kind"] = "entity" }

owners(ns, clique) ==
    { n \in clique : ns[n]["kind"] = "entity" /\ ns[n]["type"] = "ftm:Person" }

\* owners[0][1] of sorted([(rank, node_id), ...], reverse = True)
top_owner(ns, os) ==
    CHOOSE o \in os :
        \A p \in os :
            \/ ns[p]["rank"] < ns[o]["rank"]
            \/ ns[p]["rank"] = ns[o]["rank"] /\ IdKey(p) <= IdKey(o)

\* variant: the sanctioned countries are not filtered out
shells_any_country(ns, clique) ==
    { n \in clique :
        /\ ns[n]["kind"] = "entity"
        /\ ns[n]["type"] = "ftm:Company" }

shells(ns, clique) ==
    { n \in clique :
        /\ ns[n]["kind"] = "entity"
        /\ ns[n]["type"] = "ftm:Company"
        /\ ns[n]["country"] \notin SANCTIONED_COUNTRIES }

\* variant: one shell fewer is enough
viable_one_short(ns, clique) ==
    /\ Cardinality(owners(ns, clique)) > 0
    /\ Cardinality(shells(ns, clique)) >= MIN_CLIQUE_SIZE - 1

viable(ns, clique) ==
    Cardinality(owners(ns, clique)) > 0 /\ Cardinality(shells(ns, clique)) >= MIN_CLIQUE_SIZE

\* the list bad_cliques, or the KeyError that ends the loop
select_candidates(ns, es) ==
    LET comps == weakly_connected_components(ns, es)
    IN  IF \E c \in comps : select_raises(ns, c)
        THEN [raised |-> "KeyError", bad_cliques |-> {}]
        ELSE [raised |-> "",
              bad_cliques |->
                  { [owner |-> top_owner(ns, owners(ns, c)),
                     shells |-> shells(ns, c),
                     clique |-> c] : c \in { d \in comps : viable(ns, d) } }]

(***************************************************************************)
(* Simulation.gen_xact_amount, gen_xact_timing, rng_uniform_datetime       *)
(***************************************************************************)
\* round(XACT_CHUNK_MEDIAN - gaussian, 2): any amount, positive or not
AmountDraws == 0..MaxAmount

\* the assertion of gen_xact_amount
amount_ok(amount) == amount > 0

\* start + timedelta(hours = poisson * 24.0)
gen_xact_timing(offset) == start + offset

Offsets == 0..MaxOffset

\* round(gaussian, 2) for the target of an episode
TargetDraws == { 0, MaxTarget }

\* random.randrange of the window: the instants start <= t < finish; empty when
\* the window is, and randrange then raises ValueError
rng_uniform_datetime(st, fi) == { st + d : d \in 0..((fi - st) - 1) }

Max(a, b) == IF a >= b THEN a ELSE b

Min(a, b) == IF a <= b THEN a ELSE b

(***************************************************************************)
(* SynData.add_transact, add_entity                                        *)
(***************************************************************************)
add_transact(x, pay_id, ben_id, amount, timing, fraud) ==
    [fraud_n |-> IF fraud THEN x.fraud_n + 1 ELSE x.fraud_n,
     rows |-> x.rows \cup
                 { [id |-> pay_id, role |-> "pay", fraud |-> fraud, same |-> pay_id = ben_id],
                   [id |-> ben_id, role |-> "ben", fraud |-> fraud, same |-> pay_id = ben_id] },
     fraud_amount |-> IF fraud THEN x.fraud_amount + amount ELSE x.fraud_amount,
     legit_amount |-> IF fraud THEN x.legit_amount ELSE x.legit_amount + amount,
     legit_last |-> IF fraud THEN x.legit_last ELSE amount,
     fraud_latest |-> IF fraud THEN Max(x.fraud_latest, timing) ELSE x.fraud_latest,
     legit_times |-> IF fraud THEN x.legit_times ELSE x.legit_times \cup { timing }]

\* variant: the list is replaced by the new entry
add_entity_replacing(e, info) == { info }

add_entity(e, info) == e \cup { info }

(***************************************************************************)
(* Simulation.simulate_fraud and run_one_fraud                             *)
(***************************************************************************)
\* variant: the range is not capped by MAX_PATH_LEN
path_range_uncapped(n_shells) ==
    { k \in 0..(n_shells + 1) : MIN_CLIQUE_SIZE <= k /\ k < n_shells + 1 }

\* variant: the range stops one short of the number of shells
path_range_short(n_shells) ==
    { k \in 0..MAX_PATH_LEN :
        MIN_CLIQUE_SIZE <= k /\ k < Min(n_shells, MAX_PATH_LEN) }

\* list(range(MIN_CLIQUE_SIZE, min(len(shell_corps) + 1, MAX_PATH_LEN)))
path_range(n_shells) ==
    { k \in 0..MAX_PATH_LEN :
        MIN_CLIQUE_SIZE <= k /\ k < Min(n_shells + 1, MAX_PATH_LEN) }

\* variant: the paths may visit a shell more than once
permutations_with_repeats(S, r) == [1..r -> S]

\* itertools.permutations(shell_corps, r)
permutations(S, r) ==
    { p \in [1..r -> S] : \A i, j \in 1..r : i # j => p[i] # p[j] }

\* variant: the loop gives up one draw short of the target
below_target_short(sub, target) == sub < target - MaxAmount

\* the condition of `while subtotal < target_funds` in simulate_fraud
below_target(sub, target) == sub < target

NoLocals ==
    /\ ubo_owner' = None
    /\ shell_corps' = {}
    /\ target_funds' = 0
    /\ subtotal' = 0
    /\ path_len' = 0
    /\ batch_subtotal' = 0
    /\ picked' = {}
    /\ path' = << >>

Fail(e) == pc' = "failed" /\ err' = e

\* select_bad_actor, bad_actors.update, the path range and the target
SimulateFraudBegin ==
    /\ pc = "ready"
    /\ episodes < MaxEpisodes
    /\ LET sel == select_candidates(nodes, edges)
       IN  /\ bad_cliques' = sel.bad_cliques
           /\ IF sel.raised # ""
              THEN /\ Fail(sel.raised)
                   /\ UNCHANGED << bad_actors, ubo_owner, shell_corps, target_funds,
                                   subtotal >>
              ELSE IF sel.bad_cliques = {}
              THEN /\ Fail("IndexError")
                   /\ UNCHANGED << bad_actors, ubo_owner, shell_corps, target_funds,
                                   subtotal >>
              ELSE \E bad_actor \in sel.bad_cliques, target \in TargetDraws :
                   /\ bad_actors' = bad_actors \cup bad_actor.clique
                   /\ ubo_owner' = bad_actor.owner
                   /\ shell_corps' = bad_actor.shells
                   /\ target_funds' = target
                   /\ subtotal' = 0
                   /\ pc' = "simulate_fraud"
                   /\ UNCHANGED err
    /\ UNCHANGED << netVars, synVars, finish, b2b_actors, total_fraud >>
    /\ UNCHANGED << episodes, path_len, batch_subtotal, picked, path, pii_out >>

\* `while subtotal < target_funds`: draw a length and enter run_one_fraud
FraudBatchBegin ==
    /\ pc = "simulate_fraud"
    /\ below_target(subtotal, target_funds)
    /\ IF path_range(Cardinality(shell_corps)) = {}
       THEN Fail("IndexError") /\ UNCHANGED << path_len, batch_subtotal, picked, path >>
       ELSE \E r \in path_range(Cardinality(shell_corps)) :
            /\ path_len' = r
            /\ batch_subtotal' = 0
            /\ picked' = {}
            /\ path' = << >>
            /\ IF Cardinality(permutations(shell_corps, r)) < SAMPLE_SIZE
               THEN Fail("ValueError")
               ELSE pc' = "run_one_fraud" /\ UNCHANGED err
    /\ UNCHANGED << netVars, simVars, synVars >>
    /\ UNCHANGED << episodes, bad_cliques, ubo_owner, shell_corps, target_funds,
                    subtotal, pii_out >>

\* `for path in random.sample(paths, 4)`: the next sampled path
FraudNextPath ==
    /\ pc = "run_one_fraud"
    /\ Len(path) < 2
    /\ Cardinality(picked) < SAMPLE_SIZE
    /\ \E p \in permutations(shell_corps, path_len) \ picked :
          /\ path' = p
          /\ picked' = picked \cup { p }
    /\ UNCHANGED << pc, err, netVars, simVars, synVars >>
    /\ UNCHANGED << episodes, bad_cliques, ubo_owner, shell_corps, target_funds,
                    subtotal, path_len, batch_subtotal, pii_out >>

\* variant: finish is the timestamp of the transfer at hand
finish_last(fin, timing) == timing

\* self.finish = max(self.finish, timing)
finish_after(fin, timing) == Max(fin, timing)

\* `for pair in itertools.pairwise(path)`: one transfer
FraudPair ==
    /\ pc = "run_one_fraud"
    /\ Len(path) >= 2
    /\ LET pay_id == path[1]
           ben_id == path[2]
       IN  \E pay_info \in get_pii_features(nodes, edges, pay_id),
              ben_info \in get_pii_features(nodes, edges, ben_id),
              amount \in AmountDraws,
              offset \in Offsets :
            IF pay_info.raised # ""
            THEN /\ Fail(pay_info.raised)
                 /\ UNCHANGED << ents, xact, finish, batch_subtotal, path >>
            ELSE IF ben_info.raised # ""
            THEN /\ Fail(ben_info.raised)
                 /\ ents' = add_entity(ents, pay_info)
                 /\ UNCHANGED << xact, finish, batch_subtotal, path >>
            ELSE IF ~ amount_ok(amount)
            THEN /\ Fail("AssertionError")
                 /\ ents' = add_entity(add_entity(ents, pay_info), ben_info)
                 /\ UNCHANGED << xact, finish, batch_subtotal, path >>
            ELSE IF ~ (Has(nodes, pay_id, "country") /\ Has(nodes, ben_id, "country"))
            THEN /\ Fail("KeyError")
                 /\ ents' = add_entity(add_entity(ents, pay_info), ben_info)
                 /\ batch_subtotal' = batch_subtotal + amount
                 /\ finish' = finish_after(finish, gen_xact_timing(offset))
                 /\ UNCHANGED << xact, path >>
            ELSE /\ ents' = add_entity(add_entity(ents, pay_info), ben_info)
                 /\ batch_subtotal' = batch_subtotal + amount
                 /\ finish' = finish_after(finish, gen_xact_timing(offset))
                 /\ xact' = add_transact(xact, pay_id, ben_id, amount,
                                gen_xact_timing(offset), TRUE)
                 /\ path' = Tail(path)
                 /\ UNCHANGED << pc, err >>
    /\ UNCHANGED << netVars, bad_actors, b2b_actors, total_fraud >>
    /\ UNCHANGED << episodes, bad_cliques, ubo_owner, shell_corps, target_funds,
                    subtotal, path_len, picked, pii_out >>

\* run_one_fraud returns: `subtotal += self.run_one_fraud(...)`
FraudBatchEnd ==
    /\ pc = "run_one_fraud"
    /\ Len(path) < 2
    /\ Cardinality(picked) = SAMPLE_SIZE
    /\ subtotal' = subtotal + batch_subtotal
    /\ batch_subtotal' = 0
    /\ picked' = {}
    /\ path' = << >>
    /\ path_len' = 0
    /\ pc' = "simulate_fraud"
    /\ UNCHANGED << err, netVars, simVars, synVars >>
    /\ UNCHANGED << episodes, bad_cliques, ubo_owner, shell_corps, target_funds, pii_out >>

\* variant: the subtotal of the episode is not added
total_fraud_kept(total, sub) == total

\* self.total_fraud += subtotal
total_fraud_after(total, sub) == total + sub

\* the loop ends: `self.total_fraud += subtotal`
SimulateFraudEnd ==
    /\ pc = "simulate_fraud"
    /\ ~ below_target(subtotal, target_funds)
    /\ total_fraud' = total_fraud_after(total_fraud, subtotal)
    /\ episodes' = episodes + 1
    /\ NoLocals
    /\ pc' = "ready"
    /\ UNCHANGED << err, netVars, synVars, finish, bad_actors, b2b_actors >>
    /\ UNCHANGED << bad_cliques, pii_out >>

(***************************************************************************)
(* Simulation.simulate_legit                                               *)
(***************************************************************************)
\* the comprehension over net.graph.nodes reads a key some node lacks
legit_raises(ns, bad) ==
    \E n \in DOMAIN ns :
        /\ n \notin bad
        /\ \/ ~ Has(ns, n, "country")
           \/ /\ ns[n]["country"] \notin SANCTIONED_COUNTRIES
              /\ \/ ~ Has(ns, n, "kind")
                 \/ ns[n]["kind"] = "entity" /\ ~ Has(ns, n, "type")

\* variant: the bad actors are not filtered out
legit_shells_any_actor(ns, bad) ==
    { n \in DOMAIN ns :
        /\ ns[n]["country"] \notin SANCTIONED_COUNTRIES
        /\ ns[n]["kind"] = "entity"
        /\ ns[n]["type"] = "ftm:Company" }

legit_shells(ns, bad) ==
    { n \in DOMAIN ns :
        /\ n \notin bad
        /\ ns[n]["country"] \notin SANCTIONED_COUNTRIES
        /\ ns[n]["kind"] = "entity"
        /\ ns[n]["type"] = "ftm:Company" }

\* variant: the fraud total is taken as it is
legit_target_funds_undivided(total) == total

\* self.total_fraud / self.APPROX_FRAUD_RATE
legit_target_funds(total) == total * INV_APPROX_FRAUD_RATE

SimulateLegitBegin ==
    /\ pc = "ready"
    /\ IF legit_raises(nodes, bad_actors)
       THEN /\ Fail("KeyError")
            /\ UNCHANGED << shell_corps, target_funds, subtotal >>
       ELSE /\ shell_corps' = legit_shells(nodes, bad_actors)
            /\ target_funds' = legit_target_funds(total_fraud)
            /\ subtotal' = 0
            /\ pc' = "simulate_legit"
            /\ UNCHANGED err
    /\ UNCHANGED << netVars, simVars, synVars >>
    /\ UNCHANGED << episodes, bad_cliques, ubo_owner, path_len, batch_subtotal,
                    picked, path, pii_out >>

\* one iteration of `while subtotal < target_funds`
LegitPair ==
    /\ pc = "simulate_legit"
    /\ subtotal < target_funds
    /\ IF Cardinality(shell_corps) < 2
       THEN /\ Fail("ValueError")
            /\ UNCHANGED << b2b_actors, ents, xact, subtotal >>
       ELSE \E pay_id \in shell_corps :
            \E ben_id \in shell_corps \ { pay_id } :
            \E pay_info \in get_pii_features(nodes, edges, pay_id),
               ben_info \in get_pii_features(nodes, edges, ben_id),
               amount \in AmountDraws :
            /\ b2b_actors' = b2b_actors \cup { pay_id, ben_id }
            /\ IF pay_info.raised # ""
               THEN /\ Fail(pay_info.raised)
                    /\ UNCHANGED << ents, xact, subtotal >>
               ELSE IF ben_info.raised # ""
               THEN /\ Fail(ben_info.raised)
                    /\ ents' = add_entity(ents, pay_info)
                    /\ UNCHANGED << xact, subtotal >>
               ELSE IF ~ amount_ok(amount)
               THEN /\ Fail("AssertionError")
                    /\ ents' = add_entity(add_entity(ents, pay_info), ben_info)
                    /\ UNCHANGED << xact, subtotal >>
               ELSE IF rng_uniform_datetime(start, finish) = {}
               THEN /\ Fail("ValueError")
                    /\ ents' = add_entity(add_entity(ents, pay_info), ben_info)
                    /\ subtotal' = subtotal + amount
                    /\ UNCHANGED xact
               ELSE \E timing \in rng_uniform_datetime(start, finish) :
                    /\ ents' = add_entity(add_entity(ents, pay_info), ben_info)
                    /\ subtotal' = subtotal + amount
                    /\ xact' = add_transact(xact, pay_id, ben_id, amount, timing, FALSE)
                    /\ UNCHANGED << pc, err >>
    /\ UNCHANGED << netVars, finish, bad_actors, total_fraud >>
    /\ UNCHANGED << episodes, bad_cliques, ubo_owner, shell_corps, target_funds,
                    path_len, batch_subtotal, picked, path, pii_out >>

\* the loop ends and simulate_legit returns
SimulateLegitEnd ==
    /\ pc = "simulate_legit"
    /\ ~ (subtotal < target_funds)
    /\ pc' = "done"
    /\ UNCHANGED << err, netVars, simVars, synVars, localVars >>

(***************************************************************************)
(* The run                                                                 *)
(***************************************************************************)
Init ==
    /\ pc = "init"
    /\ err = ""
    /\ dat_file = << >>
    /\ dat_pos = 0
    /\ er_export_file = << >>
    /\ er_pos = 0
    /\ nodes = [n \in {} |-> EmptyAttrs]
    /\ node_seq = << >>
    /\ edges = << >>
    /\ finish = start
    /\ bad_actors = {}
    /\ b2b_actors = {}
    /\ total_fraud = 0
    /\ xact = [fraud_n |-> 0, rows |-> {}, fraud_amount |-> 0, legit_amount |-> 0,
               legit_last |-> 0, fraud_latest |-> start, legit_times |-> {}]
    /\ ents = {}
    /\ episodes = 0
    /\ bad_cliques = {}
    /\ ubo_owner = None
    /\ shell_corps = {}
    /\ target_funds = 0
    /\ subtotal = 0
    /\ path_len = 0
    /\ batch_subtotal = 0
    /\ picked = {}
    /\ path = << >>
    /\ pii_out = [raised |-> "", id |-> None, rec |-> None]

Next ==
    \/ OpenDataset
    \/ LoadDatasetRow
    \/ OpenErExport
    \/ LoadErExportLine
    \/ CloseErExport
    \/ Repair
    \/ Rank
    \/ CallGetPiiFeatures
    \/ SimulateFraudBegin
    \/ FraudBatchBegin
    \/ FraudNextPath
    \/ FraudPair
    \/ FraudBatchEnd
    \/ SimulateFraudEnd
    \/ SimulateLegitBegin
    \/ LegitPair
    \/ SimulateLegitEnd

Spec == Init /\ [][Next]_vars

\* the steps of the body of simulate_fraud after the selection
FraudLoop ==
    \/ FraudBatchBegin
    \/ FraudNextPath
    \/ FraudPair
    \/ FraudBatchEnd
    \/ SimulateFraudEnd

\* once in the body of simulate_fraud, the interpreter goes on while a step
\* is possible
FairSpec == Init /\ [][Next]_vars /\ WF_vars(FraudLoop)

\* path_range and permutations as functions of the shells alone: an episode
\* at the head of its loop, for each set of MIN_CLIQUE_SIZE to MaxShells
\* shells a selected pattern may have
ShellSets ==
    { S \in SUBSET { IdOrder[i] : i \in 1..MaxShells } :
        Cardinality(S) >= MIN_CLIQUE_SIZE }

PathInit ==
    /\ pc = "simulate_fraud"
    /\ err = ""
    /\ dat_file = << >>
    /\ dat_pos = 0
    /\ er_export_file = << >>
    /\ er_pos = 0
    /\ nodes = [n \in {} |-> EmptyAttrs]
    /\ node_seq = << >>
    /\ edges = << >>
    /\ finish = start
    /\ bad_actors = {}
    /\ b2b_actors = {}
    /\ total_fraud = 0
    /\ xact = [fraud_n |-> 0, rows |-> {}, fraud_amount |-> 0, legit_amount |-> 0,
               legit_last |-> 0, fraud_latest |-> start, legit_times |-> {}]
    /\ ents = {}
    /\ episodes = 0
    /\ bad_cliques = {}
    /\ ubo_owner = IdOrder[Len(IdOrder)]
    /\ shell_corps \in ShellSets
    /\ target_funds = MaxTarget
    /\ subtotal = 0
    /\ path_len = 0
    /\ batch_subtotal = 0
    /\ picked = {}
    /\ path = << >>
    /\ pii_out = [raised |-> "", id |-> None, rec |-> None]

PathNext == FraudBatchBegin

PathSpec == PathInit /\ [][PathNext]_vars

(***************************************************************************)
(* Properties                                                              *)
(***************************************************************************)
IsEntity(n) == Has(nodes, n, "kind") /\ nodes[n]["kind"] = "entity"

IsPerson(n) == IsEntity(n) /\ Has(nodes, n, "type") /\ nodes[n]["type"] = "ftm:Person"

IsCompany(n) == IsEntity(n) /\ Has(nodes, n, "type") /\ nodes[n]["type"] = "ftm:Company"

Sanctioned(n) == Has(nodes, n, "country") /\ nodes[n]["country"] \in SANCTIONED_COUNTRIES

\* an organization-typed entity with a country outside the sanctioned set
Eligible(n) == IsCompany(n) /\ Has(nodes, n, "country") /\ ~ Sanctioned(n)

\* the data nodes an entity points at
RecordNeighbours(n) ==
    { m \in Range(neighbors(edges, n)) : Has(nodes, m, "kind") /\ nodes[m]["kind"] = "data" }

\* C1: every pattern of the candidate list built by select_bad_actor has a
\* defined owner and at least MIN_CLIQUE_SIZE = 3 shells, and its component
\* holds at least one person-typed entity and at least 3 eligible
\* organization-typed entities.
C1_CandidatesViable ==
    \A p \in bad_cliques :
        /\ p.owner # None
        /\ p.owner \in DOMAIN nodes
        /\ Cardinality(p.shells) >= 3
        /\ \E n \in p.clique : IsPerson(n)
        /\ Cardinality({ n \in p.clique : Eligible(n) }) >= 3

\* a candidate list with a pattern in it, built over a graph that also holds a
\* component with a person and too few eligible companies, or with none
C1_Witness ==
    /\ bad_cliques # {}
    /\ \E n \in DOMAIN nodes :
          /\ IsCompany(n)
          /\ \A p \in bad_cliques : n \notin p.clique

\* C2: in every pattern of the candidate list the owner is a person-typed
\* entity of the component and no person-typed entity of the component has a
\* strictly higher rank; the shells are exactly the organization-typed
\* entities of the component whose country is not sanctioned; the third
\* element is the whole weakly-connected component.
C2_PatternShape ==
    \A p \in bad_cliques :
        /\ p.owner \in p.clique
        /\ IsPerson(p.owner)
        /\ \A q \in p.clique :
              IsPerson(q) => nodes[q]["rank"] <= nodes[p.owner]["rank"]
        /\ p.shells = { n \in p.clique : IsCompany(n) /\ ~ Sanctioned(n) }
        /\ \A n \in p.shells : Has(nodes, n, "country")
        /\ p.clique \subseteq DOMAIN nodes
        /\ p.clique = Close(edges, { p.owner })
        /\ \A i \in 1..Len(edges) :
              edges[i].src \in p.clique <=> edges[i].dst \in p.clique

\* a pattern whose component holds a second person of strictly lower rank and
\* a company of a sanctioned country
C2_Witness ==
    \E p \in bad_cliques :
        /\ \E q \in p.clique :
              IsPerson(q) /\ nodes[q]["rank"] < nodes[p.owner]["rank"]
        /\ \E n \in p.clique : IsCompany(n) /\ Sanctioned(n)

\* C3: simulate_fraud ends; when it returns, the running total of the episode
\* is at least the target drawn for it and is what the cumulative fraud total
\* grows by; every batch adds a strictly positive amount to the running total.
C3_FraudReachesTarget ==
    /\ [][(pc = "simulate_fraud" /\ pc' = "ready")
            => (subtotal >= target_funds /\ total_fraud' = total_fraud + subtotal)]_vars
    /\ [][(pc = "run_one_fraud" /\ pc' = "simulate_fraud")
            => subtotal' > subtotal]_vars
    /\ ((pc = "simulate_fraud") ~> (pc = "ready" \/ pc = "failed"))

\* an episode that returned after a first batch that stayed below the target
C3_Witness ==
    /\ pc = "ready"
    /\ episodes = 1
    /\ xact.fraud_n > SAMPLE_SIZE * (MIN_CLIQUE_SIZE - 1)
    /\ total_fraud >= MaxTarget

\* C4: when simulate_legit has returned, the amounts of the legitimate rows
\* add up to at least the legit target, the cumulative fraud total divided by
\* the approximate fraud rate; the sum without the last amount is strictly
\* below the target; with a target of 0 there is no legitimate row.
C4_LegitWithinOneDraw ==
    pc = "done" =>
        /\ xact.legit_amount >= total_fraud * INV_APPROX_FRAUD_RATE
        /\ total_fraud = 0 =>
              /\ xact.legit_amount = 0
              /\ \A row \in xact.rows : row.fraud
        /\ xact.legit_amount > 0 =>
              xact.legit_amount - xact.legit_last < total_fraud * INV_APPROX_FRAUD_RATE

\* simulate_legit returned with a sum strictly above a positive target
C4_Witness ==
    /\ pc = "done"
    /\ total_fraud > 0
    /\ xact.legit_amount > total_fraud * INV_APPROX_FRAUD_RATE

\* C5: the payer and the beneficiary of a legitimate row are not in
\* bad_actors, are organization-typed entities whose country is not
\* sanctioned, and are two distinct ids.
C5_LegitParties ==
    \A row \in xact.rows :
        ~ row.fraud =>
            /\ row.id \notin bad_actors
            /\ IsCompany(row.id)
            /\ Has(nodes, row.id, "country")
            /\ ~ Sanctioned(row.id)
            /\ ~ row.same

\* a legitimate row, written while bad_actors holds companies and a company of
\* a sanctioned country is outside bad_actors
C5_Witness ==
    /\ \E row \in xact.rows : ~ row.fraud
    /\ \E n \in bad_actors : IsCompany(n)
    /\ \E n \in DOMAIN nodes : IsCompany(n) /\ Sanctioned(n) /\ n \notin bad_actors

\* the countries of the member records of a line, in member order
MemberCountries(line) ==
    SelectSeq([i \in 1..Len(line.RECORDS) |-> nodes[line.RECORDS[i].RECORD_ID]["country"]],
              LAMBDA c : c # None)

\* C6: for every group read with at least one member whose record has a
\* country, the entity's country is a most frequent country of its members'
\* records, and of the most frequent ones the one that occurs first in member
\* order; [US, US, FR] gives US and [FR, US] gives FR.
C6_CountryIsFirstMode ==
    \A i \in 1..er_pos :
        LET line == er_export_file[i]
            ent_id == line.ENTITY_ID
            cs == MemberCountries(line)
        IN  Len(cs) > 0 =>
              /\ Has(nodes, ent_id, "country")
              /\ \E k \in 1..Len(cs) :
                    /\ cs[k] = nodes[ent_id]["country"]
                    /\ \A j \in 1..Len(cs) : Count(cs, cs[j]) <= Count(cs, cs[k])
                    /\ \A j \in 1..(k - 1) : Count(cs, cs[j]) < Count(cs, cs[k])
              /\ cs = << "US", "US", "FR" >> => nodes[ent_id]["country"] = "US"
              /\ cs = << "FR", "US" >> => nodes[ent_id]["country"] = "FR"

\* a group read whose members' countries tie, the later one being "US"
C6_Witness ==
    /\ er_pos >= 1
    /\ MemberCountries(er_export_file[1]) = << "FR", "US" >>
    /\ nodes[er_export_file[1].ENTITY_ID]["country"] = "FR"

\* C7 as stated: every resolved and every related edge carries a confidence
\* equal to its match level divided by MAX_MATCH_LEVEL, which lies in [0, 1].
C7_ConfidenceNormalised ==
    \A i \in 1..Len(edges) :
        edges[i].kind \in { "resolved", "related" } =>
            /\ edges[i].prob.num * MAX_MATCH_LEVEL = edges[i].level * edges[i].prob.den
            /\ 0 <= edges[i].prob.num
            /\ edges[i].prob.num <= edges[i].prob.den

\* the ids of the dataset rows loaded
LoadedRecords == { dat_file[i].RECORD_ID : i \in 1..dat_pos }

\* every member record the export names was loaded
MembersLoaded ==
    \A i \in 1..Len(er_export_file) :
        \A j \in 1..Len(er_export_file[i].RECORDS) :
            er_export_file[i].RECORDS[j].RECORD_ID \in LoadedRecords

\* the entities of which a group with members was read
Resolved ==
    { er_export_file[i].ENTITY_ID :
        i \in { k \in 1..er_pos : Len(er_export_file[k].RECORDS) > 0 } }

NoValue(n, k) == ~ Has(nodes, n, k) \/ nodes[n][k] = None

\* C8: over an export whose member records were all loaded, load_er_export
\* does not raise; every entity id a line read names, as its resolved entity
\* or as a related entity, is a node of kind "entity"; an entity named only
\* as related, or whose group has no members, has kind "entity" and no type,
\* name or country.
C8_NamedEntitiesExist ==
    (dat_pos = Len(dat_file) /\ MembersLoaded) =>
        /\ ~ (pc = "failed" /\ er_pos < Len(er_export_file))
        /\ \A i \in 1..er_pos :
              LET line == er_export_file[i]
                  named == { line.ENTITY_ID } \cup
                           { line.RELATED_ENTITIES[j].ENTITY_ID :
                               j \in 1..Len(line.RELATED_ENTITIES) }
              IN  \A n \in named :
                      /\ IsEntity(n)
                      /\ n \notin Resolved =>
                            /\ NoValue(n, "type")
                            /\ NoValue(n, "name")
                            /\ NoValue(n, "country")

\* the export was read to its end without raising, and it names an entity
\* only as related and another in a group without members
C8_Witness ==
    /\ pc = "repair"
    /\ MembersLoaded
    /\ \E i \in 1..er_pos :
          /\ Len(er_export_file[i].RECORDS) = 0
          /\ er_export_file[i].ENTITY_ID \notin Resolved
    /\ \E n \in DOMAIN nodes :
          /\ IsEntity(n)
          /\ \A i \in 1..er_pos : er_export_file[i].ENTITY_ID # n

\* no component holds a person-typed entity and 3 eligible companies
NoViablePattern ==
    \A c \in { Close(edges, { n }) : n \in DOMAIN nodes } :
        \/ ~ \E n \in c : IsPerson(n)
        \/ Cardinality({ n \in c : Eligible(n) }) < 3

\* C9: on a graph without viable pattern, the selection step of
\* simulate_fraud ends the run with an error; no pattern is taken, no
\* transaction is recorded, and bad_actors and the cumulative fraud total
\* stay as they were.
C9_SelectFailsWithoutPattern ==
    [][(SimulateFraudBegin /\ NoViablePattern)
         => /\ pc' = "failed"
            /\ err' \in { "IndexError", "KeyError" }
            /\ ubo_owner' = None
            /\ xact' = xact
            /\ ents' = ents
            /\ bad_actors' = bad_actors
            /\ total_fraud' = total_fraud]_vars

\* the selection failed on a graph with a person and companies, for want of
\* a third eligible company
C9_Witness ==
    /\ pc = "failed"
    /\ err = "IndexError"
    /\ NoViablePattern
    /\ \E n \in DOMAIN nodes : IsPerson(n) /\ Cardinality(RecordNeighbours(n)) > 0
    /\ \E n \in DOMAIN nodes : IsCompany(n) /\ Sanctioned(n)
    /\ xact.rows = {} /\ bad_actors = {} /\ total_fraud = 0

\* the features `f` are those of the data node f.rec, which is the node asked
\* for or, for an entity, one of its own record neighbours
FromRecord(f) ==
    /\ f.raised = ""
    /\ Has(nodes, f.rec, "kind") /\ nodes[f.rec]["kind"] = "data"
    /\ f.name = nodes[f.rec]["name"]
    /\ f.addr = nodes[f.rec]["addr"]
    /\ f.type = (IF nodes[f.rec]["type"] = "ftm:Person" THEN "person" ELSE "organization")
    /\ IF IsEntity(f.id) THEN f.rec \in RecordNeighbours(f.id) ELSE f.rec = f.id

\* C10: every row of syn.ents, and every result of get_pii_features, carries
\* the name, address and coarse type of a data node: the node asked for, or
\* for an entity one of its own record neighbours; a call on an entity
\* without record neighbour ends the run with an error.
C10_FeaturesFromRecord ==
    /\ \A f \in ents : FromRecord(f)
    /\ pii_out.id # None =>
          /\ pii_out.raised = "" => FromRecord(pii_out)
          /\ (IsEntity(pii_out.id) /\ RecordNeighbours(pii_out.id) = {}) =>
                (pii_out.raised # "" /\ pc = "failed")

\* a call on an entity without record neighbour, which ended the run
C10_Witness ==
    /\ pii_out.id # None
    /\ IsEntity(pii_out.id)
    /\ RecordNeighbours(pii_out.id) = {}
    /\ pii_out.raised = "KeyError"
    /\ pc = "failed"

\* a row that breaks a data-quality rule: no name can be extracted from it,
\* or it carries a country code that is none of the known codes
Offending(row) ==
    \/ row.name = None
    \/ row.country # None /\ row.country \notin KnownCountries

\* C11 as stated: loading stops at a record without extractable name and at
\* a record whose country code is not a known code; the record's node is not
\* added, no later record is read and no later phase runs.
C11_DataQualityAborts ==
    \A i \in 1..Len(dat_file) :
        Offending(dat_file[i]) =>
            /\ dat_pos < i
            /\ dat_file[i].RECORD_ID \notin DOMAIN nodes
            /\ pc \in { "load_dataset", "failed" }

\* select_bad_actor was called and built its candidate list
SelectionRan ==
    \/ pc \in { "simulate_fraud", "run_one_fraud" }
    \/ episodes > 0
    \/ pc = "failed" /\ err = "IndexError"

\* C12 as stated: over a group of one person record and one organization
\* record, in either member order, with three single-record companies related
\* to the group's entity, select_bad_actor builds exactly one pattern; its
\* owner is the group's entity and it has exactly 3 shells.
C12_GroupOfTwoYieldsPattern ==
    (er_export_file \in { SimGroupPersonLast, SimGroupPersonFirst } /\ SelectionRan) =>
        /\ Cardinality(bad_cliques) = 1
        /\ \A p \in bad_cliques :
              /\ p.owner = er_export_file[1].ENTITY_ID
              /\ Cardinality(p.shells) = 3

\* an organization-typed entity to which load_er_export gave no country: the
\* tally of its members' countries was empty
NoCountryCompany(n) == IsCompany(n) /\ ~ Has(nodes, n, "country")

\* select_bad_actor or simulate_legit, called on the ranked graph, ended the
\* run with a KeyError
FilterRaisedKeyError ==
    /\ pc = "failed"
    /\ err = "KeyError"
    /\ \E n \in DOMAIN nodes : Has(nodes, n, "rank")
    /\ pii_out.id = None
    /\ ubo_owner = None

\* C13 as stated: an organization-typed entity without country counts as not
\* sanctioned: select_bad_actor puts it among the shells of its component,
\* simulate_legit puts it in its pool unless it is a bad actor, and neither
\* fails for lack of the country attribute.
C13_UnsetCountryNotSanctioned ==
    \A n \in DOMAIN nodes :
        NoCountryCompany(n) =>
            /\ \A p \in bad_cliques : n \in p.clique => n \in p.shells
            /\ (pc = "simulate_legit" /\ n \notin bad_actors) => n \in shell_corps
            /\ ~ FilterRaisedKeyError

FirstRecordNeighbour(n) ==
    SelectSeq(neighbors(edges, n),
        LAMBDA m : Has(nodes, m, "kind") /\ nodes[m]["kind"] = "data")[1]

\* a person-typed entity without name that points at one data node at least
NamelessPerson(n) ==
    IsPerson(n) /\ nodes[n]["name"] = None /\ RecordNeighbours(n) # {}

\* C15 as stated: a completed pass of repair gives every person-typed entity
\* without name and with a data neighbour the name of its FIRST data
\* neighbour in neighbour order, and changes nothing else: no other node, and
\* no other attribute of those entities.
C15_RepairTakesFirstNeighbour ==
    [][(pc = "repair" /\ pc' = "rank") =>
          /\ DOMAIN nodes' = DOMAIN nodes
          /\ \A n \in DOMAIN nodes :
                IF NamelessPerson(n)
                THEN nodes'[n] =
                        [nodes[n] EXCEPT !["name"] = nodes[FirstRecordNeighbour(n)]["name"]]
                ELSE nodes'[n] = nodes[n]]_vars

\* the phases of Network.load in the order of its body, then the loaded graph
LoadPhases == << "init", "load_dataset", "load_er_export", "repair", "rank", "ready" >>

PhaseIdx(p) == CHOOSE i \in 1..Len(LoadPhases) : LoadPhases[i] = p

SomeRanked(ns) == \E n \in DOMAIN ns : "rank" \in DOMAIN ns[n]

AllRanked(ns) == \A n \in DOMAIN ns : "rank" \in DOMAIN ns[n]

C17_PathLengthBounds ==
    LET n == Cardinality(shell_corps)
    IN  /\ path_range(n) = 3..((IF n + 1 < 7 THEN n + 1 ELSE 7) - 1)
        /\ \A k \in path_range(n) : 3 <= k /\ k < 8 /\ k <= n
        /\ pc = "run_one_fraud" =>
              /\ path_len \in path_range(n)
              /\ MIN_CLIQUE_SIZE <= path_len
              /\ path_len < 8
              /\ path_len <= n

\* seven shells: the cap MAX_PATH_LEN, not the number of shells, bounds the
\* range, and its largest length was drawn
C17_Witness ==
    /\ pc = "run_one_fraud"
    /\ Cardinality(shell_corps) = 7
    /\ path_len = 6
    /\ path_len = MAX_PATH_LEN - 1

\* the rows one fraudulent transfer from `pay_id` to `ben_id` leaves in syn.xact
FraudRows(pay_id, ben_id) ==
    { [id |-> pay_id, role |-> "pay", fraud |-> TRUE, same |-> FALSE],
      [id |-> ben_id, role |-> "ben", fraud |-> TRUE, same |-> FALSE] }

\* C18: a call of run_one_fraud walks exactly 4 paths, no two the same; each
\* is a sequence of pairwise distinct shells of the pattern, of the length
\* drawn, and the owner is not on it; a path is left only when each of its
\* consecutive pairs has given exactly one transaction, recorded with
\* fraud = true from the first of the pair to the second, two different
\* shells; the subtotal handed back is the sum of the amounts of those
\* transactions, and the first batch of a path length r records 4 * (r - 1)
\* of them.
C18_BatchOfFourPaths ==
    [][/\ (pc = "simulate_fraud" /\ pc' = "run_one_fraud") =>
             (picked' = {} /\ path' = << >> /\ batch_subtotal' = 0 /\ xact' = xact)
       /\ (pc = "run_one_fraud" /\ picked' # picked /\ pc' = "run_one_fraud") =>
             /\ Len(path) < 2
             /\ path' \notin picked
             /\ picked' = picked \cup { path' }
             /\ Cardinality(picked') <= 4
             /\ Len(path') = path_len
             /\ \A i, j \in 1..Len(path') : i # j => path'[i] # path'[j]
             /\ Range(path') \subseteq shell_corps
             /\ ubo_owner \notin Range(path')
             /\ xact' = xact
             /\ batch_subtotal' = batch_subtotal
       /\ xact'.fraud_n # xact.fraud_n =>
             /\ pc = "run_one_fraud"
             /\ Len(path) >= 2
             /\ path' = Tail(path)
             /\ picked' = picked
             /\ xact'.fraud_n = xact.fraud_n + 1
             /\ xact'.fraud_amount - xact.fraud_amount = batch_subtotal' - batch_subtotal
             /\ batch_subtotal' > batch_subtotal
             /\ path[1] # path[2]
             /\ ubo_owner \notin { path[1], path[2] }
             /\ xact'.rows = xact.rows \cup FraudRows(path[1], path[2])
       /\ (pc = "run_one_fraud" /\ pc' = "simulate_fraud") =>
             /\ Cardinality(picked) = 4
             /\ Len(path) < 2
             /\ subtotal' = subtotal + batch_subtotal
             /\ xact' = xact
             /\ (subtotal = 0 /\ total_fraud = 0) =>
                   /\ xact.fraud_n = 4 * (path_len - 1)
                   /\ batch_subtotal = xact.fraud_amount]_vars

\* the first batch of an episode has returned: 4 paths of 3 shells gave 8
\* transactions among the shells, whose amounts sum to the subtotal
C18_Witness ==
    /\ pc = "simulate_fraud"
    /\ subtotal > 0
    /\ xact.fraud_n = 8
    /\ subtotal = xact.fraud_amount
    /\ \A row \in xact.rows :
          row.fraud /\ ~ row.same /\ row.id \in shell_corps /\ row.id # ubo_owner
    /\ xact.rows # {}

\* C19: for a pattern of at least MIN_CLIQUE_SIZE = 3 shells, as
\* select_bad_actor returns them, the range of path lengths is not empty and
\* for each of its lengths there are at least 4 permutations of the shells;
\* so neither the choice of a length nor the sampling of 4 paths raises.
C19_DrawsCannotFail ==
    LET n == Cardinality(shell_corps)
    IN  n >= 3 =>
            /\ path_range(n) # {}
            /\ \A r \in path_range(n) : Cardinality(permutations(shell_corps, r)) >= 4
            /\ ~ (pc = "failed" /\ err \in { "IndexError", "ValueError" })

\* the tightest case: three shells, the one length 3 drawn, six permutations
\* to sample four from
C19_Witness ==
    /\ pc = "run_one_fraud"
    /\ Cardinality(shell_corps) = 3
    /\ path_range(3) = { 3 }
    /\ path_len = 3
    /\ Cardinality(permutations(shell_corps, path_len)) = 6

\* C20: finish is never before start nor before the timestamp of a fraud
\* transaction recorded so far, and is the latest of start and those
\* timestamps; it never decreases; simulate_legit leaves it as it is.
C20_FinishIsLatestFraud ==
    [][/\ finish' >= finish
       /\ finish' >= start
       /\ finish' >= xact'.fraud_latest
       /\ finish' = (IF xact'.fraud_latest >= start THEN xact'.fraud_latest ELSE start)
       /\ (pc' = "simulate_legit" \/ pc = "simulate_legit") => finish' = finish]_vars

\* fraud transactions moved finish past start, and simulate_legit then
\* recorded a transaction inside the window without moving it
C20_Witness ==
    /\ pc = "simulate_legit"
    /\ xact.fraud_n > 0
    /\ finish > start
    /\ finish = xact.fraud_latest
    /\ xact.legit_times # {}
    /\ \A t \in xact.legit_times : start <= t /\ t < finish

\* simulate_legit had drawn its pair and its amount, and the draw of the timing
\* raised: random.randrange over an empty window
LegitTimingDrawFailed ==
    /\ pc = "failed"
    /\ err = "ValueError"
    /\ b2b_actors # {}
    /\ Cardinality(shell_corps) >= 2

\* C21 as stated: after one or more completed episodes of simulate_fraud,
\* whatever offsets their timestamps took, every timing draw of simulate_legit
\* succeeds, and every legitimate transaction is dated t with
\* start <= t <= finish.
C21_LegitTimingInWindow ==
    episodes >= 1 =>
        /\ ~ LegitTimingDrawFailed
        /\ \A t \in xact.legit_times : start <= t /\ t <= finish

\* the member and related references of the first k lines of the export
RefCount(k) ==
    LET F[i \in 0..k] ==
            IF i = 0 THEN 0
            ELSE LET prev == F[i - 1]
                 IN  prev + Len(er_export_file[i].RECORDS)
                          + Len(er_export_file[i].RELATED_ENTITIES)
    IN  F[k]

\* an edge from u to v that carries the match level `level`
HasEdge(u, v, level) ==
    \E i \in 1..Len(edges) :
        edges[i].src = u /\ edges[i].dst = v /\ edges[i].level = level

\* C22 as stated: duplicates are kept: once the export was read without
\* error, the graph holds one edge for each member reference and each related
\* reference of the export, each with the confidence of its own match entry,
\* so the number of edges is the number of references.
C22_EdgePerReference ==
    pc = "repair" =>
        /\ Len(edges) = RefCount(Len(er_export_file))
        /\ \A i \in 1..Len(er_export_file) :
              LET line == er_export_file[i]
              IN  /\ \A j \in 1..Len(line.RECORDS) :
                        HasEdge(line.ENTITY_ID, line.RECORDS[j].RECORD_ID,
                                line.RECORDS[j].MATCH_LEVEL)
                  /\ \A j \in 1..Len(line.RELATED_ENTITIES) :
                        HasEdge(line.ENTITY_ID, line.RELATED_ENTITIES[j].ENTITY_ID,
                                line.RELATED_ENTITIES[j].MATCH_LEVEL)

\* the steps of simulate_fraud, simulate_legit and the calls they make
InSimulation == pc \in { "ready", "simulate_fraud", "run_one_fraud", "simulate_legit" }

====
